---- MODULE Spec2Model ----
(***************************************************************************)
(* Persistent failure queue (TelemetryQueue) and retry/dispatch manager    *)
(* (TelemetryRetryManager) of the cloud telemetry client.                  *)
(*                                                                         *)
(* The durable store is a key/value store with asynchronous get/update:    *)
(* every store access is one atomic step, and every `await` between two    *)
(* store accesses of one call is a point where another call may run.       *)
(* A read yields the collection as stored at that moment; what a call      *)
(* changes is its own copy until it saves it.                              *)
(* An optional value (TypeScript `x?: T`) is the empty sequence when it is *)
(* undefined and the one-element sequence <<v>> when it holds v.           *)
(***************************************************************************)
EXTENDS Integers, Sequences, FiniteSets, TLC

\* ------------------------------------------------------------------ bounds
\* TelemetryQueueConfig / RetryManagerConfig as the model instantiates them.
maxQueueSize == 2
maxRetries == 2
queueSizeWarningThreshold == 2
MaxBatchSize == 2
\* Calls of enqueue in one run of the Queue alone.
MaxEnqueues == 3
\* Calls of queueFailedEvent in one run of the manager.
MaxFailedEvents == 2
\* The clock is read at whole seconds 0..MaxSeconds after a whole minute
\* 0..MaxMinutes.
MaxSeconds == 3
MaxMinutes == 2
\* Throws of the store and the observers in one run.
MaxFaults == 1

\* ------------------------------------------------------- program constants
SecondMs == 1000
connectionCheckInterval == 60000

\* Error texts: of the application's failed first send, of a failed retry.
CaptureError == "HTTP 500"
SendError == "send failed"

\* ------------------------------------------------------------ option values
Unset == << >>
Some(x) == <<x>>
\* JavaScript truthiness of an optional number / an optional string.
TruthyNumber(o) == o # Unset /\ o[1] # 0
TruthyString(o) == o # Unset /\ o[1] # ""

RECURSIVE Pow2(_)
Pow2(n) == IF n = 0 THEN 1 ELSE 2 * Pow2(n - 1)

\* ------------------------------------------------------------------- state
VARIABLES
    queue,                \* globalState[QUEUE_KEY] (absent reads as [])
    metadata,             \* globalState[QUEUE_METADATA_KEY], Unset when absent
    now,                  \* Date.now()
    retryTimer,           \* TRUE when this.retryTimer holds an interval handle
    timers,               \* live setInterval handles calling processQueue
    isProcessing,
    isConnected,
    lastConnectionCheck,
    cyc,                  \* the processQueue calls past the guard, in call order
    app,                  \* the queueFailedEvent call in progress, if any
    batchSize,            \* RetryManagerConfig.batchSize, set at construction
    faults,               \* how many more times the store or an observer throws
    enqCount,             \* events handed to enqueue so far (the next payload)
    sends,                \* per payload: times sendEvent was called with it
    statusLog,            \* last two arguments of onConnectionStatusChange
    lastOp,               \* the last step: "step", or the call that ended in it,
                          \* how, and what it passed to onQueueSizeChange
    ret,                  \* what the last Queue call returned
    onlyEnqueues          \* no Queue call but enqueue has written so far

storeVars == <<queue, metadata>>
mgrVars == <<retryTimer, timers, isProcessing, isConnected, lastConnectionCheck>>
procVars == <<cyc, app>>
obsVars == <<sends, statusLog>>
vars == <<queue, metadata, now, retryTimer, timers, isProcessing, isConnected,
          lastConnectionCheck, cyc, app, batchSize, faults, enqCount, sends,
          statusLog, lastOp, ret, onlyEnqueues>>

\* --------------------------------------------------------- TelemetryQueue
\* generateId, line 192: `${Date.now()}-${Math.random()...}`.
generateId(t, rnd) == <<t, rnd>>

\* What Math.random may yield for an id made at time t while q is stored.  Ids
\* are only ever compared for equality, so a draw is either the suffix of a
\* stored id of the same millisecond or the least suffix no stored id has.
SuffixesAt(q, t) == {q[i].id[2] : i \in {j \in 1..Len(q) : q[j].id[1] = t}}
Draws(q, t) ==
    SuffixesAt(q, t) \cup
        {CHOOSE n \in 1..(Len(q) + 1) :
            n \notin SuffixesAt(q, t) /\ \A m \in 1..(n - 1) : m \in SuffixesAt(q, t)}

\* The new event with the time of the failed capture as its last attempt.
NewEventStamped(ev, err, t, rnd) ==
    [id |-> generateId(t, rnd), event |-> ev, timestamp |-> t,
     retryCount |-> 0, lastRetryTimestamp |-> Some(t), error |-> err]

NewEvent(ev, err, t, rnd) ==
    [id |-> generateId(t, rnd), event |-> ev, timestamp |-> t,
     retryCount |-> 0, lastRetryTimestamp |-> Unset, error |-> err]

\* enqueue without the capacity check of lines 49-51.
enqueueNoEvict(q, ev, err, t, rnd) == Append(q, NewEvent(ev, err, t, rnd))

\* enqueue with pop() for the shift() of line 50.
enqueueEvictNewest(q, ev, err, t, rnd) ==
    LET room == IF Len(q) >= maxQueueSize THEN SubSeq(q, 1, Len(q) - 1) ELSE q
    IN  Append(room, NewEvent(ev, err, t, rnd))

\* enqueue, lines 46-59: the collection it saves, from the one it read.
enqueue(q, ev, err, t, rnd) ==
    LET room == IF Len(q) >= maxQueueSize THEN Tail(q) ELSE q
    IN  Append(room, NewEvent(ev, err, t, rnd))

\* The filter without the retry limit of lines 73-75.
IsReadyNoLimit(item, t) ==
    IF ~TruthyNumber(item.lastRetryTimestamp) THEN TRUE
    ELSE t >= item.lastRetryTimestamp[1] + Pow2(item.retryCount) * SecondMs

\* The filter of getEventsForRetry, lines 71-87.
IsReady(item, t) ==
    IF item.retryCount >= maxRetries THEN FALSE
    ELSE IF ~TruthyNumber(item.lastRetryTimestamp) THEN TRUE
    ELSE t >= item.lastRetryTimestamp[1] + Pow2(item.retryCount) * SecondMs

\* getEventsForRetry giving the newest event first.
getEventsForRetryNewestFirst(q, t) ==
    LET ready == SelectSeq(q, LAMBDA item : IsReady(item, t))
    IN  [i \in 1..Len(ready) |-> ready[Len(ready) + 1 - i]]

getEventsForRetry(q, t) == SelectSeq(q, LAMBDA item : IsReady(item, t))

\* updateEventAfterRetry without the return of lines 97-99: the -1 of a miss
\* reaches splice(-1, 1) and queue[-1], the last element.
findIndexOrLast(q, id) ==
    IF \E i \in 1..Len(q) : q[i].id = id
    THEN CHOOSE i \in 1..Len(q) :
            q[i].id = id /\ \A j \in 1..(i - 1) : q[j].id # id
    ELSE Len(q)

\* Array.prototype.findIndex on the id; 0 stands for -1.
findIndex(q, id) ==
    IF \E i \in 1..Len(q) : q[i].id = id
    THEN CHOOSE i \in 1..Len(q) :
            q[i].id = id /\ \A j \in 1..(i - 1) : q[j].id # id
    ELSE 0

splice(q, i) == SubSeq(q, 1, i - 1) \o SubSeq(q, i + 1, Len(q))

\* updateEventAfterRetry keeping the stored error when it is given none.
afterRetryKeepsError(q, i, success, err, t) ==
    IF success THEN splice(q, i)
    ELSE [q EXCEPT ![i] = [@ EXCEPT !.retryCount = @ + 1,
                                    !.lastRetryTimestamp = Some(t),
                                    !.error = IF err = Unset THEN @ ELSE err]]

\* updateEventAfterRetry, lines 101-109, for an index that was found.
afterRetry(q, i, success, err, t) ==
    IF success THEN splice(q, i)
    ELSE [q EXCEPT ![i] = [@ EXCEPT !.retryCount = @ + 1,
                                    !.lastRetryTimestamp = Some(t),
                                    !.error = err]]

\* pruneFailedEvents keeping the events that are exactly at the limit.
pruneFailedEventsAboveLimit(q) == SelectSeq(q, LAMBDA item : item.retryCount <= maxRetries)

\* The filter of pruneFailedEvents, line 158.
pruneFailedEvents(q) == SelectSeq(q, LAMBDA item : item.retryCount < maxRetries)

updateMetadata(q, t) == Some([size |-> Len(q), lastUpdated |-> t])

\* getQueueMetadata with the flag raised only above the threshold.
getQueueMetadataAboveOnly(q) ==
    [size |-> Len(q),
     oldestEventTimestamp |-> IF Len(q) = 0 THEN Unset ELSE Some(q[1].timestamp),
     newestEventTimestamp |-> IF Len(q) = 0 THEN Unset ELSE Some(q[Len(q)].timestamp),
     isAboveWarningThreshold |-> Len(q) > queueSizeWarningThreshold]

\* getQueueMetadata, lines 132-140.
getQueueMetadata(q) ==
    [size |-> Len(q),
     oldestEventTimestamp |-> IF Len(q) = 0 THEN Unset ELSE Some(q[1].timestamp),
     newestEventTimestamp |-> IF Len(q) = 0 THEN Unset ELSE Some(q[Len(q)].timestamp),
     isAboveWarningThreshold |-> Len(q) >= queueSizeWarningThreshold]

\* ------------------------------------------------------------------- clock
Minute(t) == t \div connectionCheckInterval
SecondOfMinute(t) == (t % connectionCheckInterval) \div SecondMs

\* Time passes by one second.
AdvanceSecond ==
    /\ SecondOfMinute(now) < MaxSeconds
    /\ now' = now + SecondMs
    /\ lastOp' = <<"step">>
    /\ UNCHANGED <<storeVars, mgrVars, procVars, obsVars, batchSize, faults, enqCount,
                   ret, onlyEnqueues>>

\* Time passes until the next whole minute.
AdvanceMinute ==
    /\ Minute(now) < MaxMinutes
    /\ now' = (Minute(now) + 1) * connectionCheckInterval
    /\ lastOp' = <<"step">>
    /\ UNCHANGED <<storeVars, mgrVars, procVars, obsVars, batchSize, faults, enqCount,
                   ret, onlyEnqueues>>

\* ------------------------------------------------------------ initial state
Idle == [pc |-> "idle", q |-> << >>, event |-> 0, error |-> Unset]

InitCommon ==
    /\ queue = << >>
    /\ metadata = Unset
    /\ isProcessing = FALSE
    /\ isConnected = TRUE
    /\ lastConnectionCheck = 0
    /\ cyc = << >>
    /\ app = Idle
    /\ enqCount = 0
    /\ sends = [n \in 1..MaxEnqueues |-> 0]
    /\ statusLog = << >>
    /\ lastOp = <<"init">>
    /\ ret = Unset
    /\ onlyEnqueues = TRUE

\* -------------------------------------- TelemetryQueue, one call at a time
\* Each action is one whole call of the Queue's API on a store that works,
\* with no other call in between (the unit tests' use of the class).
frameQ == <<now, mgrVars, procVars, obsVars, batchSize, faults>>

\* What the caller may pass as `error`: to enqueue, to updateEventAfterRetry.
EnqueueErrors == {Unset, Some(CaptureError)}
\* What TelemetryClient.capture, line 634, or another caller may pass to
\* queueFailedEvent: no error, the message of the error caught, which is the
\* empty string for an Error made without a message.
FailedEventErrors == EnqueueErrors \cup {Some("")}
RetryErrors == {Unset, Some(SendError)}
\* Ids a caller may pass: those stored, and one that is not.
UnknownId == generateId(0, 0)
IdArgs == {queue[i].id : i \in 1..Len(queue)} \cup {UnknownId}

CallEnqueue(err, rnd) ==
    /\ enqCount < MaxEnqueues
    /\ enqCount' = enqCount + 1
    /\ queue' = enqueue(queue, enqCount + 1, err, now, rnd)
    /\ metadata' = updateMetadata(queue', now)
    /\ lastOp' = <<"enqueue">>
    /\ ret' = Unset
    /\ UNCHANGED <<frameQ, onlyEnqueues>>

CallGetEventsForRetry ==
    /\ lastOp' = <<"getEventsForRetry">>
    /\ ret' = getEventsForRetry(queue, now)
    /\ UNCHANGED <<frameQ, storeVars, enqCount, onlyEnqueues>>

CallUpdateEventAfterRetry(id, success, err) ==
    LET index == findIndex(queue, id) IN
    /\ index # 0 /\ ~success => queue[index].retryCount < maxRetries
    /\ IF index = 0
       THEN UNCHANGED <<storeVars, onlyEnqueues>>
       ELSE /\ queue' = afterRetry(queue, index, success, err, now)
            /\ metadata' = updateMetadata(queue', now)
            /\ onlyEnqueues' = FALSE
    /\ lastOp' = <<"updateEventAfterRetry", index # 0, success>>
                    \o (IF index # 0 /\ ~success THEN <<err>> ELSE << >>)
    /\ ret' = Unset
    /\ UNCHANGED <<frameQ, enqCount>>

\* pruneFailedEvents saving the collection and the metadata whether or not an
\* event was removed.
CallPruneFailedEventsAlwaysWrites ==
    LET prunedQueue == pruneFailedEvents(queue) IN
    /\ queue' = prunedQueue
    /\ metadata' = updateMetadata(prunedQueue, now)
    /\ onlyEnqueues' = (onlyEnqueues /\ Len(prunedQueue) = Len(queue))
    /\ lastOp' = <<"pruneFailedEvents">>
    /\ ret' = Some(Len(queue) - Len(prunedQueue))
    /\ UNCHANGED <<frameQ, enqCount>>

CallPruneFailedEvents ==
    LET prunedQueue == pruneFailedEvents(queue) IN
    /\ IF Len(prunedQueue) # Len(queue)
       THEN /\ queue' = prunedQueue
            /\ metadata' = updateMetadata(prunedQueue, now)
            /\ onlyEnqueues' = FALSE
       ELSE UNCHANGED <<storeVars, onlyEnqueues>>
    /\ lastOp' = <<"pruneFailedEvents">>
    /\ ret' = Some(Len(queue) - Len(prunedQueue))
    /\ UNCHANGED <<frameQ, enqCount>>

\* clear emptying the collection and leaving the metadata record in place.
CallClearKeepsMetadata ==
    /\ queue' = << >>
    /\ onlyEnqueues' = FALSE
    /\ lastOp' = <<"clear", Len(queue)>>
    /\ ret' = Unset
    /\ UNCHANGED <<frameQ, metadata, enqCount>>

\* clear, lines 146-149: the empty list is saved, then the metadata record
\* is set to undefined.
CallClear ==
    /\ queue' = << >>
    /\ metadata' = Unset
    /\ onlyEnqueues' = FALSE
    /\ lastOp' = <<"clear", Len(queue)>>
    /\ ret' = Unset
    /\ UNCHANGED <<frameQ, enqCount>>

CallGetQueueSize ==
    /\ lastOp' = <<"getQueueSize">>
    /\ ret' = Some(Len(queue))
    /\ UNCHANGED <<frameQ, storeVars, enqCount, onlyEnqueues>>

CallGetQueueMetadata ==
    /\ lastOp' = <<"getQueueMetadata">>
    /\ ret' = Some(getQueueMetadata(queue))
    /\ UNCHANGED <<frameQ, storeVars, enqCount, onlyEnqueues>>

CallGetAllEvents ==
    /\ lastOp' = <<"getAllEvents">>
    /\ ret' = queue
    /\ UNCHANGED <<frameQ, storeVars, enqCount, onlyEnqueues>>

InitQueue ==
    /\ InitCommon
    /\ now = 0
    /\ retryTimer = FALSE /\ timers = 0
    /\ faults = 0
    /\ batchSize = MaxBatchSize

NextQueue ==
    \/ \E err \in EnqueueErrors, rnd \in Draws(queue, now) : CallEnqueue(err, rnd)
    \/ CallGetEventsForRetry
    \/ \E id \in IdArgs, success \in BOOLEAN, err \in RetryErrors :
            CallUpdateEventAfterRetry(id, success, err)
    \/ CallPruneFailedEvents
    \/ CallClear
    \/ CallGetQueueSize
    \/ CallGetQueueMetadata
    \/ CallGetAllEvents
    \/ AdvanceSecond

QueueSpec == InitQueue /\ [][NextQueue]_vars

\* ---------------------------------------------------- TelemetryRetryManager
\* A store access or an observer call goes well (TRUE) or throws, in a step
\* where `thrown` of them have thrown already.
Outcomes(thrown) == IF faults > thrown THEN BOOLEAN ELSE {TRUE}

\* The last two arguments the status observer was called with.
Logged(log, c) == IF Len(log) = 2 THEN <<log[2], c>> ELSE Append(log, c)

\* updateConnectionStatus without the comparison of line 406.
updateConnectionStatusAlways(cur, log, c) ==
    [isConnected |-> c, log |-> Logged(log, c), called |-> TRUE]

\* updateConnectionStatus, lines 405-416: the status it leaves, the observer's
\* log, and whether the observer was called.
updateConnectionStatus(cur, log, c) ==
    IF cur = c
    THEN [isConnected |-> cur, log |-> log, called |-> FALSE]
    ELSE [isConnected |-> c, log |-> Logged(log, c), called |-> TRUE]

\* createBatches making one batch of all the items.
FirstBatchWhole(items) == items

\* createBatches, lines 432-440: the first batch and what is left for the others.
FirstBatch(items) == SubSeq(items, 1, IF Len(items) < batchSize THEN Len(items) ELSE batchSize)
RestBatches(items) == SubSeq(items, batchSize + 1, Len(items))

\* What processBatch keeps of a queued event: its id and the payload it sends.
Item(e) == [id |-> e.id, event |-> e.event]
Items(q) == [i \in 1..Len(q) |-> Item(q[i])]

successCount(results) == Cardinality({i \in 1..Len(results) : results[i]})
failureCount(results) == Cardinality({i \in 1..Len(results) : ~results[i]})

\* processBatch without the branch of lines 367-369.
batchStatusNeverDown(cur, results) ==
    IF successCount(results) > 0 /\ ~cur THEN TRUE ELSE cur

\* processBatch disconnecting on any failure instead of on failure of all.
batchStatusAnyFailure(cur, results) ==
    IF successCount(results) > 0 /\ ~cur THEN TRUE
    ELSE IF failureCount(results) > 0 /\ cur THEN FALSE
    ELSE cur

\* processBatch, lines 365-369: the status a settled batch asks for.
batchStatus(cur, results) ==
    IF successCount(results) > 0 /\ ~cur THEN TRUE
    ELSE IF failureCount(results) = Len(results) /\ cur THEN FALSE
    ELSE cur

\* sendEvent is called once with each payload of the batch.
Sent(batch) == [n \in 1..MaxEnqueues |->
                  sends[n] + Cardinality({i \in 1..Len(batch) : batch[i].event = n})]

\* A processQueue call past the guard: where it is, the collection its Queue
\* call read, the batches to come, the batch in hand with its results, the
\* result being recorded, and `down`: "yes" once a batch of this call failed
\* whole while the status was connected, "undone" once a later send of the
\* call (of a batch, of the probe) succeeded, "no" before.
NoCycle == [pc |-> "none", q |-> << >>, retry |-> << >>, batch |-> << >>,
            results |-> << >>, k |-> 0, down |-> "no"]
Cycle(pc, q, retry, batch, results, k, down) ==
    [pc |-> pc, q |-> q, retry |-> retry, batch |-> batch, results |-> results, k |-> k,
     down |-> down]

\* `down` after a batch with these results settled while the status was cur.
downAfterBatch(down, cur, results) ==
    IF failureCount(results) = Len(results) /\ cur THEN "yes"
    ELSE IF successCount(results) > 0 /\ down = "yes" THEN "undone"
    ELSE down

\* `down` after the probe settled.
downAfterProbe(down, delivered) == IF delivered /\ down = "yes" THEN "undone" ELSE down

\* processQueue with the reset of line 322 at the end of the try block
\* instead of in a finally.
FinishWithoutFinally(i, how) ==
    /\ cyc' = SubSeq(cyc, 1, i - 1) \o SubSeq(cyc, i + 1, Len(cyc))
    /\ isProcessing' = IF how[1] = "threw" THEN isProcessing ELSE FALSE
    /\ lastOp' = <<"processQueue">> \o how

\* The try/catch/finally of processQueue, lines 319-323: the call ends, by
\* return or by a caught error, and the guard is released.
Finish(i, how) ==
    /\ cyc' = SubSeq(cyc, 1, i - 1) \o SubSeq(cyc, i + 1, Len(cyc))
    /\ isProcessing' = FALSE
    /\ lastOp' = <<"processQueue">> \o how

\* processQueue, lines 285-293: the guard, and the read that opens
\* pruneFailedEvents.
ProcessQueue(guarded) ==
    IF guarded /\ isProcessing
    THEN /\ lastOp' = <<"processQueue", "dropped">>
         /\ UNCHANGED <<storeVars, now, mgrVars, procVars, obsVars, batchSize, faults,
                        enqCount, ret, onlyEnqueues>>
    ELSE /\ Len(cyc) < 2
         /\ \E ok \in Outcomes(0) :
              IF ok
              THEN /\ cyc' = Append(cyc, Cycle("prune", queue, << >>, << >>, << >>, 0, "no"))
                   /\ isProcessing' = TRUE
                   /\ lastOp' = <<"step">>
                   /\ UNCHANGED faults
              ELSE /\ Finish(Len(cyc) + 1, <<"threw">>)
                   /\ faults' = faults - 1
         /\ UNCHANGED <<storeVars, now, retryTimer, timers, isConnected,
                        lastConnectionCheck, app, obsVars, batchSize, enqCount, ret,
                        onlyEnqueues>>

\* processQueue without the guard of lines 285-287.
processQueueUnguarded == ProcessQueue(FALSE)

processQueue == ProcessQueue(TRUE)

\* start setting an interval whether or not one is already active.
StartWithoutCheck ==
    /\ retryTimer' = TRUE
    /\ timers' = timers + 1
    /\ lastOp' = IF retryTimer THEN <<"start", "no-op">> ELSE <<"step">>
    /\ UNCHANGED <<storeVars, now, isProcessing, isConnected, lastConnectionCheck,
                   procVars, obsVars, batchSize, faults, enqCount, ret, onlyEnqueues>>

\* start, lines 231-240.
Start ==
    /\ IF retryTimer
       THEN /\ lastOp' = <<"start", "no-op">>
            /\ UNCHANGED <<retryTimer, timers>>
       ELSE /\ retryTimer' = TRUE
            /\ timers' = timers + 1
            /\ lastOp' = <<"step">>
    /\ UNCHANGED <<storeVars, now, isProcessing, isConnected, lastConnectionCheck,
                   procVars, obsVars, batchSize, faults, enqCount, ret, onlyEnqueues>>

\* stop setting the field to undefined without clearInterval.
StopWithoutClear ==
    /\ IF retryTimer
       THEN /\ retryTimer' = FALSE
            /\ lastOp' = <<"stop", "cleared">>
            /\ UNCHANGED timers
       ELSE /\ lastOp' = <<"stop", "no-op">>
            /\ UNCHANGED <<retryTimer, timers>>
    /\ UNCHANGED <<storeVars, now, isProcessing, isConnected, lastConnectionCheck,
                   procVars, obsVars, batchSize, faults, enqCount, ret, onlyEnqueues>>

\* stop, lines 245-250.
Stop ==
    /\ IF retryTimer
       THEN /\ retryTimer' = FALSE
            /\ timers' = timers - 1
            /\ lastOp' = <<"stop", "cleared">>
       ELSE /\ lastOp' = <<"stop", "no-op">>
            /\ UNCHANGED <<retryTimer, timers>>
    /\ UNCHANGED <<storeVars, now, isProcessing, isConnected, lastConnectionCheck,
                   procVars, obsVars, batchSize, faults, enqCount, ret, onlyEnqueues>>

\* An interval set by start fires, lines 237-239.
TimerTick == timers > 0 /\ processQueue

\* triggerRetry running the cycle's body past the guard.
TriggerRetryUnguarded == ProcessQueue(FALSE)

\* triggerRetry, lines 255-257.
TriggerRetry == processQueue

\* The store and the manager's fields as a step of a call finds them.
Env == [queue |-> queue, metadata |-> metadata, isConnected |-> isConnected,
        lastConnectionCheck |-> lastConnectionCheck, sends |-> sends,
        statusLog |-> statusLog, faults |-> faults]
Thrown(e) == [e EXCEPT !.faults = e.faults - 1]

\* saveQueue then updateMetadata, as every mutating Queue call ends (lines
\* 60-61, 111-112, 161-162): two writes to two keys, the second of which no
\* call ever reads, taken as one step.  Either write may throw.
WriteOutcomes == IF faults > 0 THEN {"saved", "save threw", "metadata threw"} ELSE {"saved"}
Saved(q, w) ==
    [Env EXCEPT !.queue = IF w = "save threw" THEN queue ELSE q,
                !.metadata = IF w = "saved" THEN updateMetadata(q, now) ELSE metadata,
                !.faults = IF w = "saved" THEN faults ELSE faults - 1]

\* A step of processQueue call i leaves the store and fields as e and the call
\* as c2 (NoCycle: the call ends).
CycCommit(i, e, c2, how) ==
    /\ queue' = e.queue
    /\ metadata' = e.metadata
    /\ isConnected' = e.isConnected
    /\ lastConnectionCheck' = e.lastConnectionCheck
    /\ sends' = e.sends
    /\ statusLog' = e.statusLog
    /\ faults' = e.faults
    /\ IF c2.pc = "none"
       THEN Finish(i, how)
       ELSE /\ cyc' = [cyc EXCEPT ![i] = c2]
            /\ lastOp' = <<"step">>
            /\ UNCHANGED isProcessing
    /\ UNCHANGED <<now, retryTimer, timers, app, batchSize, enqCount, ret, onlyEnqueues>>

\* processBatch, lines 330-343: sendEvent is called with every payload of the
\* batch at once.
SendBatch(i, e, items, down) ==
    CycCommit(i, [e EXCEPT !.sends = Sent(FirstBatch(items))],
              Cycle("sending", << >>, RestBatches(items), FirstBatch(items), << >>, 0,
                    down),
              <<"step">>)

\* processQueue going on to the probe of line 315 when nothing is eligible.
FetchProbesWhenEmpty(i) ==
    LET eventsToRetry == Items(getEventsForRetry(queue, now)) IN
    IF Len(eventsToRetry) = 0
    THEN CycCommit(i, [Env EXCEPT !.lastConnectionCheck = now],
                   Cycle("probing", << >>, << >>, << >>, << >>, 0, "no"), <<"step">>)
    ELSE SendBatch(i, Env, eventsToRetry, "no")

\* processQueue, lines 299-312: getEventsForRetry reads the store; nothing
\* eligible ends the call, else the first batch is sent.
Fetch(i) ==
    \E ok \in Outcomes(0) :
        IF ~ok THEN CycCommit(i, Thrown(Env), NoCycle, <<"threw">>)
        ELSE LET eventsToRetry == Items(getEventsForRetry(queue, now)) IN
             IF Len(eventsToRetry) = 0
             THEN CycCommit(i, Env, NoCycle, <<"returned">>)
             ELSE SendBatch(i, Env, eventsToRetry, "no")

\* pruneFailedEvents, lines 158-165, on the collection the call read: it saves
\* only a collection that shrank.
CycPrune(i) ==
    LET c == cyc[i]
        prunedQueue == pruneFailedEvents(c.q)
    IN  /\ c.pc = "prune"
        /\ IF Len(prunedQueue) # Len(c.q)
           THEN \E w \in WriteOutcomes :
                  CycCommit(i, Saved(prunedQueue, w),
                            IF w = "saved" THEN [c EXCEPT !.pc = "fetch", !.q = << >>]
                            ELSE NoCycle,
                            IF w = "saved" THEN <<"step">> ELSE <<"threw">>)
           ELSE Fetch(i)

CycFetch(i) == cyc[i].pc = "fetch" /\ Fetch(i)

\* processBatch joining the sends with Promise.all and no inner catch: a
\* rejected send rejects the join and ends the call in the catch of line 319.
CycSettleFailFast(i) ==
    LET c == cyc[i] IN
    /\ c.pc = "sending"
    /\ \E results \in [1..Len(c.batch) -> BOOLEAN] :
         IF \A k \in 1..Len(results) : results[k]
         THEN CycCommit(i, Env, [c EXCEPT !.pc = "updWrite", !.results = results,
                                          !.k = 1, !.q = queue], <<"step">>)
         ELSE CycCommit(i, Env, NoCycle, <<"threw">>)

\* Every send of the batch has settled (Promise.allSettled, line 330);
\* updateEventAfterRetry for the first result reads the store.
CycSettle(i) ==
    LET c == cyc[i] IN
    /\ c.pc = "sending"
    /\ \E results \in [1..Len(c.batch) -> BOOLEAN], ok \in Outcomes(0) :
         IF ok
         THEN CycCommit(i, Env, [c EXCEPT !.pc = "updWrite", !.results = results,
                                          !.k = 1, !.q = queue], <<"step">>)
         ELSE CycCommit(i, Thrown(Env), NoCycle, <<"threw">>)

\* notifyQueueSizeChange, line 422: getQueueMetadata reads the store.
\* From here to its end the call keeps as `results` the outcome of the probe
\* it sent, if it sent one.
NotifyReadAfter(i, e, down, probe) ==
    \E ok \in Outcomes(faults - e.faults) :
        IF ok THEN CycCommit(i, e, Cycle("notify", queue, << >>, << >>, probe, 0, down),
                             <<"step">>)
        ELSE CycCommit(i, Thrown(e), NoCycle, <<"threw">>)
NotifyRead(i, e, down) == NotifyReadAfter(i, e, down, << >>)

\* checkConnectionStatus without the return of lines 379-381.
CheckConnectionEveryCycle(i, e, down) ==
    CycCommit(i, [e EXCEPT !.lastConnectionCheck = now],
              Cycle("probing", << >>, << >>, << >>, << >>, 0, down), <<"step">>)

\* checkConnectionStatus, lines 376-383: the probe is due or not.
CheckConnection(i, e, down) ==
    IF now - lastConnectionCheck < connectionCheckInterval
    THEN NotifyRead(i, e, down)
    ELSE CycCommit(i, [e EXCEPT !.lastConnectionCheck = now],
                   Cycle("probing", << >>, << >>, << >>, << >>, 0, down), <<"step">>)

\* processBatch, lines 364-369, then the next batch or the end of the loop.
AfterBatch(i) ==
    LET c == cyc[i]
        st == updateConnectionStatus(isConnected, statusLog,
                                     batchStatus(isConnected, c.results))
        e == [Env EXCEPT !.isConnected = st.isConnected, !.statusLog = st.log]
        down == downAfterBatch(c.down, isConnected, c.results)
    IN  \E observerOk \in Outcomes(0) :
          IF st.called /\ ~observerOk THEN CycCommit(i, Thrown(e), NoCycle, <<"threw">>)
          ELSE IF Len(c.retry) > 0 THEN SendBatch(i, e, c.retry, down)
          ELSE CheckConnection(i, e, down)

\* The loop of processBatch, lines 349-360, after one updateEventAfterRetry:
\* the next one reads the store, or the batch is done.
AfterUpdate(i) ==
    LET c == cyc[i] IN
    IF c.k < Len(c.batch)
    THEN \E ok \in Outcomes(0) :
           IF ok
           THEN CycCommit(i, Env, [c EXCEPT !.pc = "updWrite", !.k = c.k + 1,
                                            !.q = queue], <<"step">>)
           ELSE CycCommit(i, Thrown(Env), NoCycle, <<"threw">>)
    ELSE AfterBatch(i)

\* updateEventAfterRetry after a send that, like TelemetryClient.capture, hands
\* the event it could not deliver to enqueue.
CycUpdWriteRequeues(i) ==
    LET c == cyc[i]
        index == findIndex(c.q, c.batch[c.k].id)
        success == c.results[c.k]
        updated == afterRetry(c.q, index, success,
                              IF success THEN Unset ELSE Some(SendError), now)
    IN  /\ c.pc = "updWrite"
        /\ IF index = 0
           THEN AfterUpdate(i)
           ELSE \E w \in WriteOutcomes, rnd \in Draws(updated, now) :
                  CycCommit(i, Saved(IF success THEN updated
                                     ELSE enqueue(updated, c.batch[c.k].event,
                                                  Some(SendError), now, rnd), w),
                            IF w = "saved" THEN [c EXCEPT !.pc = "updNext", !.q = << >>]
                            ELSE NoCycle,
                            IF w = "saved" THEN <<"step">> ELSE <<"threw">>)

\* updateEventAfterRetry, lines 95-112, on the collection the call read.
CycUpdWrite(i) ==
    LET c == cyc[i]
        index == findIndex(c.q, c.batch[c.k].id)
        success == c.results[c.k]
        updated == afterRetry(c.q, index, success,
                              IF success THEN Unset ELSE Some(SendError), now)
    IN  /\ c.pc = "updWrite"
        /\ IF index = 0
           THEN AfterUpdate(i)
           ELSE \E w \in WriteOutcomes :
                  CycCommit(i, Saved(updated, w),
                            IF w = "saved" THEN [c EXCEPT !.pc = "updNext", !.q = << >>]
                            ELSE NoCycle,
                            IF w = "saved" THEN <<"step">> ELSE <<"threw">>)

CycUpdNext(i) == cyc[i].pc = "updNext" /\ AfterUpdate(i)

\* The payload number standing for the probe's event, which no caller enqueues.
Sentinel == 0

\* checkConnectionStatus sending the probe the way TelemetryClient.capture
\* sends: a probe that fails is handed to enqueue.
CycProbeSettleQueuesFailure(i) ==
    LET c == cyc[i] IN
    /\ c.pc = "probing"
    /\ \E delivered \in BOOLEAN, rnd \in Draws(queue, now) :
         LET st == updateConnectionStatus(isConnected, statusLog, delivered)
             q2 == IF delivered THEN queue
                   ELSE enqueue(queue, Sentinel, Some(SendError), now, rnd)
             e == [Env EXCEPT !.isConnected = st.isConnected, !.statusLog = st.log,
                              !.queue = q2]
         IN  NotifyReadAfter(i, e, downAfterProbe(c.down, delivered), <<delivered>>)

\* checkConnectionStatus sending the probe without acting on its outcome.
CycProbeSettleKeepsStatus(i) ==
    LET c == cyc[i] IN
    /\ c.pc = "probing"
    /\ \E delivered \in BOOLEAN :
         NotifyReadAfter(i, Env, downAfterProbe(c.down, delivered), <<delivered>>)

\* checkConnectionStatus, lines 385-399: the probe settles.  An observer that
\* throws inside the try is caught by the catch, which reports a disconnect.
CycProbeSettle(i) ==
    LET c == cyc[i] IN
    /\ c.pc = "probing"
    /\ \E delivered \in BOOLEAN, observerOk \in Outcomes(0), observerOk2 \in Outcomes(1) :
         LET st == updateConnectionStatus(isConnected, statusLog, delivered)
             e == [Env EXCEPT !.isConnected = st.isConnected, !.statusLog = st.log]
             st2 == updateConnectionStatus(st.isConnected, st.log, FALSE)
             e2 == [Env EXCEPT !.isConnected = st2.isConnected, !.statusLog = st2.log]
             down == downAfterProbe(c.down, delivered)
         IN  IF ~st.called \/ observerOk THEN NotifyReadAfter(i, e, down, <<delivered>>)
             ELSE IF ~delivered THEN CycCommit(i, Thrown(e), NoCycle, <<"threw">>)
             ELSE IF st2.called /\ ~observerOk2
                  THEN CycCommit(i, Thrown(Thrown(e2)), NoCycle, <<"threw">>)
             ELSE NotifyReadAfter(i, Thrown(e2), down, <<delivered>>)

\* notifyQueueSizeChange, lines 424-426, and the end of processQueue.
CycNotify(i) ==
    LET c == cyc[i]
        md == getQueueMetadata(c.q)
        notified == <<md.size, md.isAboveWarningThreshold>>
    IN  /\ c.pc = "notify"
        /\ \E observerOk \in Outcomes(0) :
             CycCommit(i, IF observerOk THEN Env ELSE Thrown(Env), NoCycle,
                       <<IF observerOk THEN "returned" ELSE "threw", notified>>)

\* A step of the queueFailedEvent call leaves the store and fields as e and
\* the call as a2 (Idle: its promise has settled; how: "resolved", "rejected").
AppCommit(e, a2, how) ==
    /\ queue' = e.queue
    /\ metadata' = e.metadata
    /\ isConnected' = e.isConnected
    /\ statusLog' = e.statusLog
    /\ faults' = e.faults
    /\ app' = a2
    /\ lastOp' = IF a2.pc = "idle" THEN <<"queueFailedEvent">> \o how ELSE <<"step">>
    /\ UNCHANGED <<now, retryTimer, timers, isProcessing, lastConnectionCheck, cyc,
                   sends, batchSize, ret, onlyEnqueues>>

\* queueFailedEvent, line 263: the call, and the read that opens enqueue.
QueueFailedEvent(err) ==
    /\ app.pc = "idle"
    /\ enqCount < MaxFailedEvents
    /\ enqCount' = enqCount + 1
    /\ \E ok \in Outcomes(0) :
         IF ok
         THEN AppCommit(Env, [pc |-> "enqWrite", q |-> queue, event |-> enqCount + 1,
                              error |-> err], <<"step">>)
         ELSE AppCommit(Thrown(Env), Idle, <<"rejected">>)

\* enqueue, lines 46-61, on the collection the call read.
AppEnqWrite ==
    /\ app.pc = "enqWrite"
    /\ \E rnd \in Draws(app.q, now), w \in WriteOutcomes :
         AppCommit(Saved(enqueue(app.q, app.event, app.error, now, rnd), w),
                   IF w = "saved" THEN [app EXCEPT !.pc = "status", !.q = << >>] ELSE Idle,
                   IF w = "saved" THEN <<"step">> ELSE <<"rejected">>)
    /\ UNCHANGED enqCount

\* queueFailedEvent with a notifyQueueSizeChange that does not read the store.
AppStatusWithoutRead ==
    /\ app.pc = "status"
    /\ \E observerOk \in Outcomes(0), ok \in Outcomes(0) :
         LET st == IF TruthyString(app.error) /\ isConnected
                   THEN updateConnectionStatus(isConnected, statusLog, FALSE)
                   ELSE [isConnected |-> isConnected, log |-> statusLog, called |-> FALSE]
             e == [Env EXCEPT !.isConnected = st.isConnected, !.statusLog = st.log]
         IN  IF (st.called /\ ~observerOk) \/ ~ok
             THEN AppCommit(Thrown(e), Idle, <<"rejected">>)
             ELSE AppCommit(e, [app EXCEPT !.pc = "notify"], <<"step">>)
    /\ UNCHANGED enqCount

\* queueFailedEvent, lines 266-271: the fast disconnect signal, then
\* notifyQueueSizeChange reads the store.
AppStatus ==
    /\ app.pc = "status"
    /\ \E observerOk \in Outcomes(0), ok \in Outcomes(0) :
         LET st == IF TruthyString(app.error) /\ isConnected
                   THEN updateConnectionStatus(isConnected, statusLog, FALSE)
                   ELSE [isConnected |-> isConnected, log |-> statusLog, called |-> FALSE]
             e == [Env EXCEPT !.isConnected = st.isConnected, !.statusLog = st.log]
         IN  IF (st.called /\ ~observerOk) \/ ~ok
             THEN AppCommit(Thrown(e), Idle, <<"rejected">>)
             ELSE AppCommit(e, [app EXCEPT !.pc = "notify", !.q = queue], <<"step">>)
    /\ UNCHANGED enqCount

\* notifyQueueSizeChange, lines 424-426, and the end of queueFailedEvent.
AppNotify ==
    LET md == getQueueMetadata(app.q)
        notified == <<md.size, md.isAboveWarningThreshold>>
    IN  /\ app.pc = "notify"
        /\ \E observerOk \in Outcomes(0) :
             AppCommit(IF observerOk THEN Env ELSE Thrown(Env), Idle,
                       <<IF observerOk THEN "resolved" ELSE "rejected", notified>>)
        /\ UNCHANGED enqCount

\* ----------------------------------------------------------- specifications
CycleStep(i) ==
    \/ CycPrune(i)
    \/ CycFetch(i)
    \/ CycSettle(i)
    \/ CycUpdWrite(i)
    \/ CycUpdNext(i)
    \/ CycProbeSettle(i)
    \/ CycNotify(i)

Next ==
    \/ TimerTick
    \/ TriggerRetry
    \/ \E i \in 1..Len(cyc) : CycleStep(i)
    \/ \E err \in FailedEventErrors : QueueFailedEvent(err)
    \/ AppEnqWrite
    \/ AppStatus
    \/ AppNotify
    \/ AdvanceMinute

\* The manager as TelemetryClient.initializeQueueSystem leaves it, lines
\* 496-519: constructed and started, a minute or more after the epoch.
InitStarted ==
    /\ InitCommon
    /\ now = connectionCheckInterval
    /\ retryTimer = TRUE /\ timers = 1
    /\ batchSize \in 1..MaxBatchSize

\* The manager on a store and observers that never throw.
Init == InitStarted /\ faults = 0
Spec == Init /\ [][Next]_vars

\* The manager on a store and observers that may throw.
InitFaulty == InitStarted /\ faults = MaxFaults
FaultSpec == InitFaulty /\ [][Next]_vars

\* The manager with its timer started and stopped at will.
NextLifecycle == Next \/ Start \/ Stop
LifecycleSpec == Init /\ [][NextLifecycle]_vars

\* The event loop runs the continuation of every await that has settled, and
\* every send and store access settles: a processQueue call past the guard
\* takes its next step, and so does a queueFailedEvent call.
CycleRuns == WF_vars(\E i \in 1..Len(cyc) : CycleStep(i))
AppRuns == WF_vars(AppEnqWrite \/ AppStatus \/ AppNotify)

\* Besides, the interval of start keeps firing (setInterval, line 237).
TimerFires == WF_vars(TimerTick)
FairSpec == Spec /\ CycleRuns /\ AppRuns /\ TimerFires

\* ------------------------------------------------------------------ claims
\* The queueFailedEvent call saves what enqueue makes of the stored queue.
EnqueueOnStored ==
    (app.pc = "enqWrite" /\ app'.pc = "status")
        => \E rnd \in Draws(app.q, now) :
              queue' = enqueue(queue, app.event, app.error, now, rnd)

\* The cycle saves what updateEventAfterRetry makes of the stored queue.
UpdateOnStored ==
    (Len(cyc) = 1 /\ Len(cyc') = 1 /\ cyc[1].pc = "updWrite" /\ cyc'[1].pc = "updNext")
        => LET c == cyc[1]
               index == findIndex(queue, c.batch[c.k].id)
           IN  /\ index # 0
               /\ queue' = afterRetry(queue, index, c.results[c.k],
                                      IF c.results[c.k] THEN Unset ELSE Some(SendError),
                                      now)

\* The cycle saves what pruneFailedEvents makes of the stored queue.
PruneOnStored ==
    (Len(cyc) = 1 /\ Len(cyc') = 1 /\ cyc[1].pc = "prune" /\ cyc'[1].pc = "fetch")
        => queue' = pruneFailedEvents(queue)

\* C1: with queueFailedEvent running during a processing cycle, every mutating
\* Queue call is atomic: what it saves is its own change applied to the queue
\* as stored at that moment, so no call's save undoes another's.
C1_WritesBuildOnStoredQueue ==
    [][EnqueueOnStored /\ UpdateOnStored /\ PruneOnStored]_vars

\* C2: at most one processQueue call is past the guard at any time, whatever
\* the order of ticks, triggerRetry, start, stop and pending sends.
C2_OneCycleAtATime == Len(cyc) <= 1

C2_Witness ==
    /\ Len(cyc) = 1 /\ cyc[1].pc = "sending"
    /\ isProcessing
    /\ lastOp = <<"processQueue", "dropped">>

\* C3: a tick or triggerRetry arriving during a cycle changes nothing (no
\* prune, fetch, send or callback), and a cycle begins only in the step of an
\* invocation that found the guard free, never as the late effect of a
\* dropped one.
C3_DroppedWhileProcessing ==
    [][/\ (isProcessing /\ (TimerTick \/ TriggerRetry))
            => /\ UNCHANGED <<storeVars, now, mgrVars, procVars, obsVars>>
               /\ lastOp' = <<"processQueue", "dropped">>
       /\ Len(cyc') > Len(cyc) => (~isProcessing /\ (TimerTick \/ TriggerRetry))]_vars

C3_Witness ==
    /\ Len(cyc) = 1 /\ cyc[1].pc = "updWrite"
    /\ lastOp = <<"processQueue", "dropped">>
    /\ \E n \in 1..MaxEnqueues : sends[n] > 0

\* C4: however a cycle ends (normally, early on nothing eligible, or by a
\* throw of any step), isProcessing is false afterwards and the error stays
\* inside processQueue, so the next tick finds the guard free.
C4_GuardReleased ==
    /\ Len(cyc) = 0 => ~isProcessing
    /\ (lastOp[1] = "processQueue" /\ lastOp[2] \in {"returned", "threw"})
            => (~isProcessing /\ Len(cyc) = 0)

C4_Witness ==
    /\ lastOp[1] = "processQueue" /\ lastOp[2] = "threw"
    /\ faults < MaxFaults
    /\ ~isProcessing
    /\ Len(queue) > 0

\* C5: after any sequence of enqueue, updateEventAfterRetry,
\* pruneFailedEvents and clear from an empty store, the stored queue is no
\* longer than maxQueueSize.
C5_LengthWithinCapacity == Len(queue) <= maxQueueSize

C5_Witness ==
    /\ lastOp = <<"enqueue">>
    /\ enqCount > maxQueueSize
    /\ ~onlyEnqueues
    /\ Len(queue) = maxQueueSize

\* C6: after n > maxQueueSize enqueues and nothing else, the queue holds
\* exactly the last maxQueueSize events in the order they were enqueued (each
\* overflowing enqueue dropped the oldest one only).
C6_KeepsLastEnqueued ==
    (onlyEnqueues /\ enqCount > maxQueueSize)
        => /\ Len(queue) = maxQueueSize
           /\ \A i \in 1..Len(queue) : queue[i].event = enqCount - maxQueueSize + i

C6_Witness ==
    /\ onlyEnqueues
    /\ enqCount = maxQueueSize + 1
    /\ lastOp = <<"enqueue">>
    /\ queue[1].event = 2

\* C7: an event with retryCount r < maxRetries last attempted at t (any t,
\* 0 included) is returned by getEventsForRetry exactly when
\* now >= t + 2^r * 1000.
C7_BackoffBoundary ==
    \A i \in 1..Len(queue) :
        LET e == queue[i]
            r == getEventsForRetry(queue, now)
        IN  (e.retryCount < maxRetries /\ e.lastRetryTimestamp # Unset)
                => ((\E j \in 1..Len(r) : r[j] = e)
                        <=> now >= e.lastRetryTimestamp[1]
                                      + Pow2(e.retryCount) * SecondMs)

\* C8: whatever is stored and whatever the time, getEventsForRetry returns no
\* event with retryCount >= maxRetries.
C8_NeverReturnsExhausted ==
    LET r == getEventsForRetry(queue, now) IN
    /\ \A j \in 1..Len(r) : r[j].retryCount < maxRetries
    /\ lastOp = <<"getEventsForRetry">> => ret = r

C8_Witness ==
    /\ lastOp = <<"getEventsForRetry">>
    /\ Len(queue) = 2 /\ Len(ret) = 1
    /\ queue[1].retryCount >= maxRetries
    /\ ret[1] = queue[2]

\* C9: over all cycles, sendEvent is called with one queued event at most
\* maxRetries times, also when queueFailedEvent calls fall between the steps
\* of the cycles.
C9_SendsWithinLimit == \A n \in 1..MaxEnqueues : sends[n] <= maxRetries

\* C10: onConnectionStatusChange is called only when the stored status
\* changes: consecutive calls carry alternating values, the first call ever
\* carries false, and the argument is the status getConnectionStatus returns.
C10_EdgeTriggered ==
    /\ statusLog = << >> => isConnected
    /\ Len(statusLog) = 1 => statusLog[1] = FALSE
    /\ Len(statusLog) = 2 => statusLog[1] # statusLog[2]
    /\ Len(statusLog) >= 1 => statusLog[Len(statusLog)] = isConnected

C10_Witness ==
    /\ statusLog = <<TRUE, FALSE>>
    /\ ~isConnected
    /\ Len(cyc) = 0 /\ app.pc = "idle"

\* The step in which the cycle leaves the loop of processBatch, lines 349-360,
\* and the results of the batch it has settled.
BatchEnds ==
    /\ Len(cyc) = 1
    /\ cyc[1].pc \in {"updWrite", "updNext"}
    /\ cyc[1].k = Len(cyc[1].batch)
    /\ IF Len(cyc') = 1 THEN cyc'[1].pc \notin {"updWrite", "updNext"} ELSE TRUE
BatchSucceeded == {j \in 1..Len(cyc[1].results) : cyc[1].results[j]}

\* C11: when a batch has settled, at least one success while disconnected
\* makes the status connected, failure of every event while connected makes
\* it disconnected, and in every other case the status stays and the status
\* observer is not called.
C11_StatusFromBatchAlone ==
    [][BatchEnds =>
          LET some == BatchSucceeded # {}
              none == BatchSucceeded = {}
          IN  /\ (some /\ ~isConnected)
                    => (isConnected' /\ statusLog' = Logged(statusLog, TRUE))
              /\ (none /\ isConnected)
                    => (~isConnected' /\ statusLog' = Logged(statusLog, FALSE))
              /\ ((some /\ isConnected) \/ (none /\ ~isConnected))
                    => (isConnected' = isConnected /\ statusLog' = statusLog)]_vars

C11_Witness ==
    /\ Len(cyc) = 1
    /\ cyc[1].pc = "updNext"
    /\ cyc[1].k = 2 /\ Len(cyc[1].batch) = 2
    /\ cyc[1].results = <<FALSE, TRUE>>
    /\ isConnected
    /\ statusLog = <<FALSE, TRUE>>

\* `down` of the cycle in progress.
CycleDown == IF Len(cyc) = 0 THEN "no" ELSE cyc[1].down

\* C12 as stated: a cycle with a batch that failed whole while the status was
\* connected ends with the status disconnected (the status observer having
\* been called once, with false).
C12_DisconnectedAtCycleEnd ==
    (Len(cyc) = 1 /\ cyc[1].pc = "notify" /\ cyc[1].down # "no")
        => (~isConnected /\ statusLog[Len(statusLog)] = FALSE)

\* C12, amended: a batch that fails whole while the status is connected makes
\* it disconnected and calls the status observer once, with false; from then
\* to the end of the cycle the status stays disconnected and the observer is
\* not called, unless a later send of the cycle (of a later batch, of the
\* probe) succeeds.  A batch with a success while the status is disconnected,
\* in this or a later cycle, makes it connected and calls the observer with
\* true.
C12_DisconnectedUntilUndone ==
    [][/\ (CycleDown # "yes" /\ CycleDown' = "yes")
            => (isConnected /\ ~isConnected' /\ statusLog' = Logged(statusLog, FALSE))
       /\ (CycleDown = "yes" /\ CycleDown' = "yes")
            => (~isConnected' /\ statusLog' = statusLog)
       /\ (CycleDown = "yes" /\ Len(cyc') = 0) => ~isConnected'
       /\ (BatchEnds /\ BatchSucceeded # {} /\ ~isConnected)
            => (isConnected' /\ statusLog' = Logged(statusLog, TRUE))]_vars

C12_Witness ==
    /\ Len(cyc) = 1 /\ cyc[1].pc = "notify" /\ cyc[1].down = "yes"
    /\ lastConnectionCheck = now
    /\ ~isConnected
    /\ statusLog = <<TRUE, FALSE>>

\* C13: the promise of queueFailedEvent never rejects, whatever the store or
\* an observer throws during the call.
C13_QueueFailedEventNeverRejects ==
    lastOp[1] = "queueFailedEvent" => lastOp[2] # "rejected"

\* The event with payload n is stored in q.
Holds(q, n) == \E i \in 1..Len(q) : q[i].event = n

\* The step records the successful delivery of the event with payload n.
Delivers(n) ==
    /\ Len(cyc) = 1 /\ cyc[1].pc = "updWrite"
    /\ cyc[1].batch[cyc[1].k].event = n
    /\ cyc[1].results[cyc[1].k]

\* The step prunes the event with payload n, stored with its retries used up.
Prunes(n) ==
    /\ Len(cyc) = 1 /\ cyc[1].pc = "prune"
    /\ \E i \in 1..Len(queue) : queue[i].event = n /\ queue[i].retryCount >= maxRetries

\* C14: an event leaves the queue only by its successful delivery or by
\* pruning once its retryCount >= maxRetries (clear is not called here), and
\* an event that has left never reappears: it enters only by its own enqueue.
C14_LeavesOnceByDeliveryOrPrune ==
    [][\A n \in 1..MaxFailedEvents :
          /\ (Holds(queue, n) /\ ~Holds(queue', n)) => (Delivers(n) \/ Prunes(n))
          /\ (~Holds(queue, n) /\ Holds(queue', n))
                => (app.pc = "enqWrite" /\ app.event = n)]_vars

\* C15: updateEventAfterRetry(id, true) with a stored id removes exactly the
\* event of that id, keeping the others and their order, and a second call
\* with the same id changes nothing (the id is stored no more).
C15_RemovesOneAndIsIdempotent ==
    [][lastOp' = <<"updateEventAfterRetry", TRUE, TRUE>>
          => \E i \in 1..Len(queue) :
                /\ queue' = splice(queue, i)
                /\ findIndex(queue', queue[i].id) = 0]_vars

\* C16: updateEventAfterRetry(id, false, error) with a stored id adds 1 to
\* that event's retryCount, sets its lastRetryTimestamp to the current time
\* and its error to the one given (none when none is given), and leaves its
\* id, payload, timestamp and place, and every other event, as they were.
C16_FailureUpdatesOneEvent ==
    [][(Len(lastOp') = 4 /\ lastOp'[1] = "updateEventAfterRetry")
          => \E i \in 1..Len(queue) :
                queue' = [queue EXCEPT ![i] =
                            [id |-> queue[i].id,
                             event |-> queue[i].event,
                             timestamp |-> queue[i].timestamp,
                             retryCount |-> queue[i].retryCount + 1,
                             lastRetryTimestamp |-> Some(now),
                             error |-> lastOp'[4]]]]_vars

C16_Witness ==
    /\ lastOp = <<"updateEventAfterRetry", TRUE, FALSE, Unset>>
    /\ now > 0
    /\ Len(queue) = 2
    /\ queue[1].retryCount = 0 /\ queue[1].error = Some(CaptureError)
    /\ queue[2].retryCount = 2 /\ queue[2].error = Unset
    /\ queue[2].lastRetryTimestamp = Some(now)
    /\ queue[2].timestamp < now

\* C17: updateEventAfterRetry with an id that is not stored, success true or
\* false, completes and leaves the stored queue and metadata as they were.
C17_UnknownIdIsNoOp ==
    [][(\E success \in BOOLEAN, err \in RetryErrors :
            CallUpdateEventAfterRetry(UnknownId, success, err))
          => (queue' = queue /\ metadata' = metadata /\ ret' = Unset)]_vars

C17_Witness ==
    /\ lastOp = <<"updateEventAfterRetry", FALSE, FALSE>>
    /\ Len(queue) = 2
    /\ queue[2].retryCount = 1
    /\ metadata # Unset

\* The places of the stored events that have retries left.
WithRetriesLeft == {i \in 1..Len(queue) : queue[i].retryCount < maxRetries}

\* C18: pruneFailedEvents removes exactly the events with
\* retryCount >= maxRetries, keeps the others in their order, and returns
\* how many it removed (0 when there was none).
C18_PrunesExactlyExhausted ==
    [][lastOp' = <<"pruneFailedEvents">>
          => /\ Len(queue') = Cardinality(WithRetriesLeft)
             /\ \A i \in WithRetriesLeft :
                    queue'[Cardinality({j \in WithRetriesLeft : j <= i})] = queue[i]
             /\ ret' = Some(Len(queue) - Cardinality(WithRetriesLeft))]_vars

C18_Witness ==
    /\ lastOp = <<"pruneFailedEvents">>
    /\ ret = Some(1)
    /\ Len(queue) = 1
    /\ queue[1].event = 2 /\ queue[1].retryCount = 1

\* C19: once clear has completed, whatever the queue held, getQueueSize
\* gives 0, getQueueMetadata().size is 0 and the metadata record is absent
\* from the store.
C19_ClearedStoreIsEmpty ==
    lastOp[1] = "clear"
        => /\ Len(queue) = 0
           /\ getQueueMetadata(queue).size = 0
           /\ metadata = Unset

C19_Witness ==
    /\ lastOp = <<"clear", maxQueueSize>>
    /\ queue = << >>

\* C20: whatever start and stop calls were made, at most one interval is
\* active, and it is the one the retryTimer field holds: a start call that
\* finds a timer sets no second one, so a period fires processQueue once.
C20_AtMostOneTimer ==
    /\ timers <= 1
    /\ retryTimer <=> timers = 1

C20_Witness ==
    /\ lastOp = <<"start", "no-op">>
    /\ retryTimer
    /\ timers = 1

\* C21: while the timer is stopped no interval starts a processing cycle; stop
\* leaves a cycle in flight as it is, and while the timer is stopped such a
\* cycle can always take its next step (a send settles, a Queue call is made),
\* up to its end.
C21_StopSparesCycleInFlight ==
    /\ [][~retryTimer => ~TimerTick]_vars
    /\ [][lastOp' = <<"stop", "cleared">> => cyc' = cyc /\ isProcessing' = isProcessing]_vars
    /\ [](~retryTimer /\ Len(cyc) > 0 => ENABLED (\E i \in 1..Len(cyc) : CycleStep(i)))

C21_Witness ==
    /\ lastOp = <<"stop", "cleared">>
    /\ ~retryTimer /\ timers = 0
    /\ isProcessing
    /\ Len(cyc) = 1 /\ cyc[1].pc = "sending"

\* C26: with the timer firing, a manager cannot stay for ever disconnected,
\* with an empty queue (so no send fails) and a probe due: a cycle sends the
\* probe, which sets lastConnectionCheck and, delivered, reconnects.
C26_IdleManagerProbes ==
    []<>(isConnected \/ Len(queue) > 0
            \/ now - lastConnectionCheck < connectionCheckInterval)

\* C22: queueFailedEvent enqueues the payload with the error it was given;
\* then, given an error while the status is connected, it sets the status to
\* disconnected and calls the status observer with false, and otherwise it
\* leaves the status alone and does not call the observer.
C22_ErrorWhileConnectedDisconnects ==
    [][/\ (app.pc = "enqWrite" /\ app'.pc = "status")
            => /\ queue'[Len(queue')].event = app.event
               /\ queue'[Len(queue')].error = app.error
       /\ (app.pc = "status" /\ app'.pc = "notify")
            => IF app.error # Unset /\ isConnected
               THEN ~isConnected' /\ statusLog' = Logged(statusLog, FALSE)
               ELSE isConnected' = isConnected /\ statusLog' = statusLog]_vars

\* The same for every error but the empty string.
C22_NonEmptyError ==
    [][(app.pc = "status" /\ app'.pc = "notify" /\ app.error # Some(""))
            => IF app.error # Unset /\ isConnected
               THEN ~isConnected' /\ statusLog' = Logged(statusLog, FALSE)
               ELSE isConnected' = isConnected /\ statusLog' = statusLog]_vars

\* The queueFailedEvent call reads the store for its notification once its
\* enqueue is saved, and ends by one call of the size observer with the size
\* and the threshold flag of the collection it read.
NotifiesWhatItRead ==
    /\ (app.pc = "status" /\ app'.pc = "notify") => app'.q = queue
    /\ (app.pc = "notify" /\ app'.pc = "idle")
         => lastOp' = <<"queueFailedEvent", "resolved",
                        <<Len(app.q), Len(app.q) >= queueSizeWarningThreshold>>>>
    /\ lastOp'[1] = "queueFailedEvent" => app.pc = "notify"

\* The collection read for the notification holds the event just enqueued.
CountsNewEvent ==
    (app.pc = "notify" /\ app'.pc = "idle")
        => \E k \in 1..Len(app.q) : app.q[k].event = app.event

InFlight(i) == IF cyc[i].pc = "sending" THEN Len(cyc[i].batch) ELSE 0
Least(a, b) == IF a < b THEN a ELSE b

\* C24: a cycle sends the eligible events in batches of at most batchSize,
\* consecutive and in the order getEventsForRetry gave; sends are issued only
\* when a batch starts, and the next batch starts only once every send of the
\* batch before it has settled and every one of its results went through
\* updateEventAfterRetry; so never more than batchSize sends are in flight.
C24_BatchesInOrderOneAtATime ==
    /\ [](\A i \in 1..Len(cyc) : InFlight(i) <= batchSize)
    /\ [](Len(cyc) <= 1)
    /\ [][Len(cyc) = 1 /\ Len(cyc') = 1 =>
            LET c == cyc[1]
                d == cyc'[1]
            IN  /\ sends' # sends => c.pc # "sending" /\ d.pc = "sending"
                /\ (c.pc \in {"prune", "fetch"} /\ d.pc = "sending")
                     => /\ d.batch \o d.retry = Items(getEventsForRetry(queue, now))
                        /\ Len(d.batch) = Least(batchSize, Len(d.batch) + Len(d.retry))
                        /\ sends' = Sent(d.batch)
                /\ (c.pc \in {"updWrite", "updNext"} /\ d.pc = "sending")
                     => /\ c.k = Len(c.batch)
                        /\ Len(c.results) = Len(c.batch)
                        /\ d.batch \o d.retry = c.retry
                        /\ Len(d.batch) = Least(batchSize, Len(c.retry))
                        /\ sends' = Sent(d.batch)]_vars

C24_Witness ==
    /\ batchSize = 1
    /\ Len(cyc) = 1 /\ cyc[1].pc = "sending"
    /\ cyc[1].batch[1].event = 2 /\ cyc[1].retry = << >>
    /\ sends[1] = 1 /\ sends[2] = 1
    /\ Len(queue) = 2 /\ queue[1].retryCount = 1

\* What updateEventAfterRetry(id, success, error) with the outcome of the k-th
\* send of batch c.batch saves, when it finds the id in the collection it read.
UpdateOfResult(c) ==
    LET index == findIndex(c.q, c.batch[c.k].id) IN
    IF c.results[c.k] THEN splice(c.q, index)
    ELSE [c.q EXCEPT ![index] = [@ EXCEPT !.retryCount = @ + 1,
                                          !.lastRetryTimestamp = Some(now),
                                          !.error = Some(SendError)]]

\* C25: every event getEventsForRetry returned is sent once (as C24 states,
\* with its batch); once the sends of a batch have settled, whatever their
\* outcomes, the cycle goes through the results one by one, from the first to
\* the last, and calls updateEventAfterRetry once for each with that event's
\* own outcome: a success without an error, a failure with its message.
C25_EachOutcomeUpdatedOnce ==
    [][(Len(cyc) = 1 /\ cyc' # cyc) =>
          LET c == cyc[1]
              d == IF Len(cyc') = 1 THEN cyc'[1] ELSE NoCycle
          IN  /\ c.pc = "sending"
                   => /\ d.pc = "updWrite" /\ d.k = 1
                      /\ d.batch = c.batch /\ Len(d.results) = Len(c.batch)
              /\ d.pc = "sending" => sends' = Sent(d.batch)
              /\ c.pc = "updWrite"
                   => /\ findIndex(c.q, c.batch[c.k].id) # 0
                         => queue' = UpdateOfResult(c) /\ d.pc = "updNext" /\ d.k = c.k
                      /\ d.pc = "updWrite" => d.k = c.k + 1
                      /\ d.pc \notin {"updNext", "updWrite"} => c.k = Len(c.batch)
              /\ c.pc = "updNext"
                   => /\ d.pc = "updWrite" => d.k = c.k + 1
                      /\ d.pc # "updWrite" => c.k = Len(c.batch)
              /\ d.pc \in {"updWrite", "updNext"} /\ c.pc # "sending"
                   => d.batch = c.batch /\ d.results = c.results]_vars

C25_Witness ==
    /\ Len(cyc) = 1 /\ cyc[1].pc = "updNext"
    /\ cyc[1].k = 2 /\ cyc[1].results = <<FALSE, TRUE>>
    /\ Len(queue) = 1
    /\ queue[1].event = 1 /\ queue[1].retryCount = 1 /\ queue[1].error = Some(SendError)
    /\ sends[1] = 1 /\ sends[2] = 1

\* C27: the probe is sent by a cycle whose batches have all settled and been
\* recorded, when 60 seconds or more have passed since the probe before it
\* (lastConnectionCheck, which only a probe sets, to the time it is sent);
\* after its probe a cycle sends nothing more. Probes are thus 60 seconds
\* apart or more.
C27_ProbesAMinuteApart ==
    [][LET c == IF Len(cyc) = 1 THEN cyc[1] ELSE NoCycle
           d == IF Len(cyc') = 1 THEN cyc'[1] ELSE NoCycle
           probeSent == d.pc = "probing" /\ c.pc # "probing"
       IN  /\ lastConnectionCheck' # lastConnectionCheck => probeSent
           /\ probeSent
                => /\ c.pc \in {"updWrite", "updNext"}
                   /\ c.k = Len(c.batch) /\ c.retry = << >>
                   /\ now - lastConnectionCheck >= connectionCheckInterval
                   /\ lastConnectionCheck' = now
           /\ (c.pc = "probing" /\ cyc' # cyc) => d.pc \in {"notify", "none"} /\ sends' = sends
           /\ (c.pc = "notify" /\ cyc' # cyc) => d.pc = "none" /\ sends' = sends]_vars

C27_Witness ==
    /\ Len(cyc) = 1 /\ cyc[1].pc = "probing"
    /\ now = 2 * connectionCheckInterval
    /\ lastConnectionCheck = now
    /\ sends[1] = 2

\* C28: sending the probe and settling it, delivered or not, leave the stored
\* queue and its metadata record as they are, and no stored event ever
\* carries the probe's payload.
C28_ProbeLeavesQueueAlone ==
    /\ [](\A k \in 1..Len(queue) : queue[k].event # Sentinel)
    /\ [][LET c == IF Len(cyc) = 1 THEN cyc[1] ELSE NoCycle
              d == IF Len(cyc') = 1 THEN cyc'[1] ELSE NoCycle
          IN  (cyc' # cyc /\ (c.pc = "probing" \/ d.pc = "probing"))
                 => queue' = queue /\ metadata' = metadata]_vars

C28_Witness ==
    /\ Len(cyc) = 1 /\ cyc[1].pc = "notify"
    /\ lastConnectionCheck = now
    /\ ~isConnected /\ statusLog = <<FALSE>>
    /\ enqCount = 2 /\ sends[1] = 1 /\ sends[2] = 0
    /\ Len(queue) = 1 /\ queue[1].event = 2 /\ queue[1].error = Unset

\* A processQueue call that got past the guard ends having called the size
\* observer.
EveryCycleNotifies ==
    [][(Len(cyc) = 1 /\ Len(cyc') = 0) => Len(lastOp') = 3]_vars

\* C29: a cycle calls the size observer with (size, isAboveWarningThreshold)
\* before it releases the guard; here for the case the claim names, a cycle
\* whose pruneFailedEvents removed events and whose getEventsForRetry then
\* returned none.
C29_PrunedCycleNotifies ==
    [][(Len(cyc) = 1 /\ cyc[1].pc = "fetch" /\ Len(cyc') = 0)
          => /\ Len(lastOp') = 3
             /\ lastOp'[3] = <<Len(queue), Len(queue) >= queueSizeWarningThreshold>>]_vars

\* C30: from one state of the stored queue to the next, an event that stays
\* in it keeps its retryCount or has it raised by one, and an event that is
\* new to it has retryCount 0 when it is the one just handed to enqueue.
C30_RetryCountNeverDecreases ==
    [][\A j \in 1..Len(queue') :
          /\ \A i \in 1..Len(queue) :
                queue[i].event = queue'[j].event
                   => queue'[j].retryCount \in
                         {queue[i].retryCount, queue[i].retryCount + 1}
          /\ (\A i \in 1..Len(queue) : queue[i].event # queue'[j].event)
                 /\ queue'[j].event = enqCount'
                   => queue'[j].retryCount = 0]_vars

\* C31: no two events stored in the queue at the same time have the same id,
\* events enqueued within one millisecond included.
C31_IdsUnique ==
    \A i, j \in 1..Len(queue) : i # j => queue[i].id # queue[j].id

\* The events of q at the places S, in the order of q.
Pick(q, S) ==
    [r \in 1..Cardinality(S) |->
        q[CHOOSE i \in S : Cardinality({j \in S : j <= i}) = r]]

ReadOnlyCalls == {"getEventsForRetry", "getQueueSize", "getQueueMetadata", "getAllEvents"}

\* C32: getEventsForRetry returns events of the stored queue, each once and
\* in stored order, none of them exhausted, and among them every event that
\* has retries left and no last attempt; it and the other reading calls leave
\* the stored queue and the metadata record as they are.
C32_ReadsInOrderAndLeaveStore ==
    [][/\ lastOp'[1] \in ReadOnlyCalls => queue' = queue /\ metadata' = metadata
       /\ lastOp' = <<"getEventsForRetry">>
            => \E S \in SUBSET (1..Len(queue)) :
                  /\ ret' = Pick(queue, S)
                  /\ \A i \in S : queue[i].retryCount < maxRetries
                  /\ \A i \in 1..Len(queue) :
                        (queue[i].retryCount < maxRetries
                            /\ queue[i].lastRetryTimestamp = Unset) => i \in S
       /\ lastOp' = <<"getQueueSize">> => ret' = Some(Len(queue))
       /\ lastOp' = <<"getAllEvents">> => ret' = queue]_vars

C32_Witness ==
    /\ lastOp = <<"getEventsForRetry">>
    /\ Len(queue) = 2 /\ ret = queue
    /\ queue[1].retryCount = 1 /\ queue[1].lastRetryTimestamp = Some(SecondMs)
    /\ queue[2].retryCount = 0
    /\ now = 3 * SecondMs

\* C33: getQueueMetadata returns the length of the stored queue as size, the
\* flag size >= queueSizeWarningThreshold, and the timestamps of the first
\* and of the last stored event, both undefined for an empty queue.
C33_MetadataOfStoredQueue ==
    [][lastOp' = <<"getQueueMetadata">>
          => /\ Len(ret') = 1
             /\ ret'[1].size = Len(queue)
             /\ ret'[1].isAboveWarningThreshold
                    = (ret'[1].size >= queueSizeWarningThreshold)
             /\ IF Len(queue) = 0
                THEN /\ ret'[1].oldestEventTimestamp = Unset
                     /\ ret'[1].newestEventTimestamp = Unset
                ELSE /\ ret'[1].oldestEventTimestamp = Some(Head(queue).timestamp)
                     /\ ret'[1].newestEventTimestamp
                            = Some(queue[Len(queue)].timestamp)]_vars

C33_Witness ==
    /\ lastOp = <<"getQueueMetadata">>
    /\ Len(ret) = 1
    /\ ret[1].size = 2 /\ ret[1].isAboveWarningThreshold
    /\ ret[1].oldestEventTimestamp = Some(SecondMs)
    /\ ret[1].newestEventTimestamp = Some(2 * SecondMs)
    /\ enqCount = 3

Exhausted(n) ==
    \E i \in 1..Len(queue) : queue[i].event = n /\ queue[i].retryCount >= maxRetries

\* C35: a cycle prunes before it fetches, so when it goes on from
\* getEventsForRetry, to dispatch or to its end, no exhausted event is stored
\* any more and none is in the batch it sends; and an event stored exhausted
\* is not stored with retries left afterwards, so that no later cycle sends it.
C35_ExhaustedPrunedBeforeDispatch ==
    [][/\ (Len(cyc) = 1 /\ cyc' # cyc /\ cyc[1].pc \in {"prune", "fetch"}
             /\ (Len(cyc') = 0 \/ cyc'[1].pc = "sending"))
            => /\ \A n \in 1..MaxFailedEvents : ~Exhausted(n)
               /\ Len(cyc') = 1 =>
                     \A k \in 1..Len(cyc'[1].batch) : ~Exhausted(cyc'[1].batch[k].event)
       /\ \A n \in 1..MaxFailedEvents :
             Exhausted(n) => \A j \in 1..Len(queue') :
                                queue'[j].event = n => queue'[j].retryCount >= maxRetries]_vars

\* The event stored last is new (retryCount 0, no last attempt), carries the
\* payload and the error given, and is eligible at once.
FreshAndEligible(q, ev, err) ==
    /\ Len(q) >= 1
    /\ q[Len(q)].event = ev /\ q[Len(q)].error = err
    /\ q[Len(q)].retryCount = 0 /\ q[Len(q)].lastRetryTimestamp = Unset
    /\ \E k \in 1..Len(getEventsForRetry(q, now)) :
          getEventsForRetry(q, now)[k] = q[Len(q)]

\* On a store that works, every enqueue call, with an error or without,
\* stores such an event, whatever the queue held.
EnqueueStoresFreshEvent ==
    [][lastOp' = <<"enqueue">>
          => \E err \in EnqueueErrors : FreshAndEligible(queue', enqCount', err)]_vars

\* C36: enqueue always succeeds, and the event it stores has retryCount 0 and
\* no last attempt whether or not an error came with it, so that the next
\* getEventsForRetry returns it.
C36_EnqueueAlwaysSucceeds ==
    [][/\ (app.pc = "idle" /\ app' # app) => app'.pc = "enqWrite"
       /\ (app.pc = "enqWrite" /\ app' # app)
            => /\ app'.pc = "status"
               /\ FreshAndEligible(queue', app.event, app.error)]_vars

\* C37: pruneFailedEvents writes neither the collection nor the metadata when no
\* stored event has reached maxRetries, and returns 0; it writes both when it
\* removed an event.
C37_PruneWritesOnlyWhenItRemoves ==
    [][lastOp' = <<"pruneFailedEvents">>
          => IF \A k \in 1..Len(queue) : queue[k].retryCount < maxRetries
             THEN queue' = queue /\ metadata' = metadata /\ ret' = Some(0)
             ELSE /\ Len(queue') < Len(queue)
                  /\ metadata' = Some([size |-> Len(queue'), lastUpdated |-> now])
                  /\ ret' = Some(Len(queue) - Len(queue'))]_vars

\* pruneFailedEvents found nothing to remove in a queue saved a while ago, and
\* the metadata still dates from that save.
C37_Witness ==
    /\ lastOp = <<"pruneFailedEvents">> /\ ret = Some(0)
    /\ Len(queue) > 0 /\ metadata # Unset
    /\ metadata[1].lastUpdated < now

\* C38: a stored event has a last attempt exactly when its retryCount is at
\* least 1, so the wait getEventsForRetry applies (lines 83-86, reached only
\* with a last attempt) is never shorter than 2 seconds.
C38_AttemptStampedIffRetried ==
    \A k \in 1..Len(queue) :
        /\ (queue[k].lastRetryTimestamp # Unset) <=> (queue[k].retryCount >= 1)
        /\ TruthyNumber(queue[k].lastRetryTimestamp)
              => Pow2(queue[k].retryCount) * SecondMs >= 2 * SecondMs

\* getEventsForRetry, one second after an event's first failure, left that
\* event out and returned an event never retried.
C38_Witness ==
    /\ lastOp = <<"getEventsForRetry">>
    /\ \E k \in 1..Len(queue) :
          /\ queue[k].retryCount = 1 /\ queue[k].lastRetryTimestamp = Some(SecondMs)
          /\ now = 2 * SecondMs
          /\ \A j \in 1..Len(ret) : ret[j] # queue[k]
    /\ \E k \in 1..Len(queue), j \in 1..Len(ret) :
          /\ queue[k].retryCount = 0 /\ queue[k].lastRetryTimestamp = Unset
          /\ ret[j] = queue[k]

\* C39: no step of a processing cycle makes the stored queue longer; the queue
\* grows only in the enqueue of a queueFailedEvent call.
C39_CycleNeverGrowsQueue ==
    [][/\ cyc' # cyc => Len(queue') <= Len(queue)
       /\ Len(queue') > Len(queue) => app.pc = "enqWrite" /\ app'.pc = "status"]_vars

\* A cycle has recorded a failed retry on the entry it sent, and the queue
\* still holds that one entry only.
C39_Witness ==
    /\ Len(cyc) = 1 /\ cyc[1].pc = "updNext"
    /\ ~cyc[1].results[cyc[1].k]
    /\ Len(queue) = 1
    /\ queue[1].id = cyc[1].batch[cyc[1].k].id
    /\ queue[1].retryCount >= 1

\* The call in flight sent the probe and is past it; its outcome.
Probed == Len(cyc) = 1 /\ cyc[1].pc = "notify" /\ cyc[1].results # << >>
ProbeDelivered == cyc[1].results[1]

\* lastConnectionCheck is set to the present in the step that sends the probe,
\* before its outcome is known.
StampedBeforeProbe ==
    [][(Len(cyc') = 1 /\ cyc'[1].pc = "probing" /\ cyc' # cyc)
          => lastConnectionCheck' = now]_vars

\* C40 as stated: when a cycle that sent the probe ends, the status is the
\* probe's outcome; and lastConnectionCheck was advanced before the probe was
\* sent.
C40_StatusAtEndIsProbeOutcome ==
    /\ [][(Probed /\ cyc' # cyc) => isConnected' = ProbeDelivered]_vars
    /\ StampedBeforeProbe

\* C40 amended: the status is the probe's outcome when the probe settles,
\* whatever the batches of the cycle made of it; from there to the end of the
\* cycle only a queueFailedEvent call that carries an error changes it, to
\* disconnected, so a cycle whose probe failed ends disconnected; and
\* lastConnectionCheck was advanced before the probe was sent.
C40_StatusIsProbeOutcomeWhenSettled ==
    /\ [][(Len(cyc) = 1 /\ cyc[1].pc = "probing" /\ cyc' # cyc)
            => /\ Len(cyc') = 1 /\ cyc'[1].pc = "notify" /\ cyc'[1].results # << >>
               /\ isConnected' = cyc'[1].results[1]]_vars
    /\ [][(Probed /\ isConnected' # isConnected)
            => /\ cyc' = cyc /\ ~isConnected'
               /\ app.pc = "status" /\ TruthyString(app.error)]_vars
    /\ [][(Probed /\ cyc' # cyc /\ ~ProbeDelivered) => ~isConnected']_vars
    /\ StampedBeforeProbe

\* A batch of the cycle failed whole and made the status disconnected, then
\* the probe was delivered: the status is connected again.
C40_Witness ==
    /\ Probed /\ ProbeDelivered
    /\ cyc[1].down = "undone"
    /\ isConnected
    /\ lastConnectionCheck = now

====
